---- MODULE Spec2Model ----
(***************************************************************************)
(* A model of the client-side scripts of the FL demo of absmach/propeller: *)
(*   examples/fl-demo/provision-smq.py  (readiness probe, login, the       *)
(*       create-or-lookup reconciler, the compose.yaml patcher)            *)
(*   examples/fl-demo/test-fl-http.py   (the 12-step round workflow)       *)
(* Every action is one blocking HTTP request together with the handling of *)
(* its response, or one file-system operation.  The services the scripts   *)
(* talk to are the environment: their answers are drawn with \E.           *)
(***************************************************************************)
EXTENDS Integers, Sequences, FiniteSets, TLC

VARIABLES
    \* ---- configuration file patcher (update_compose_file) ----
    file,             \* content of compose.yaml, or Absent
    backup,           \* content of compose.yaml.bak, or Absent
    ppc,              \* position inside update_compose_file
    content,          \* local: the patched text
    original_content, \* local: the text read at the start of the call
    presult,          \* return value of the last call: "none", "true", "false"
    pclients,         \* argument clients: sequence of resolved clients
    pdomain,          \* argument domain_id (text)
    pchannel,         \* argument channel_id (text)
    pass,             \* number of the current application of the patch
    fsLog,            \* file-system operations performed by the current call
    backup0,          \* content of the backup when the current call started
    returned,         \* the return values of the calls made so far, in order
    \* ---- round workflow (test-fl-http.py main) ----
    hpc,              \* position in main
    hsvc,             \* index of the service being verified
    round_id,         \* the locally generated round identifier
    hidx,             \* index of the participant being processed
    task,             \* the task received for the current participant
    model,            \* the base model used for the current participant
    update,           \* the local update last computed (line 144)
    update_payload,   \* the body of the last POST /update built (line 151)
    hlog,             \* the requests issued so far, with their outcome
    observed,         \* what the completion check printed
    \* ---- the services the round workflow talks to ----
    cK,               \* coordinator: k_of_n of the configured round (0: none)
    cUpdates,         \* coordinator: the updates it buffered
    mStore,           \* model registry: the versions it holds
    \* ---- provisioning (provision-smq.py main), one entry per run ----
    rpc,              \* position of the run in main
    psvc,             \* index of the service being probed
    attempt,          \* health checks already failed for that service
    response,         \* wait_for_service: the answer to its last health check,
                      \* "none" once main has gone on to login
    token_data,       \* login: the answer to the token request, NoTokenData
                      \* once main has gone on to create_domain
    connection_data,  \* connect_clients_to_channel: the body of its request
    token,            \* whether login returned a token
    domain,           \* id of the resolved domain (0: None)
    clients,          \* the dict clients, in insertion order
    cidx,             \* index in CLIENT_NAMES of the client being created
    channel,          \* id of the resolved channel (0: None)
    why,              \* the failure announced before sys.exit(1)
    rlog,             \* the requests the run issued, with their outcome
    \* ---- the registry the provisioning talks to ----
    env,              \* "reliable": every request is answered as specified
    second,           \* how the second run is started: "none", "after", "concurrent"
    dReg,             \* the domains, in creation order
    cReg,             \* the clients, in creation order
    chReg,            \* the channels, in creation order
    \* ---- task launcher (test-fl-local.py main) ----
    lpc,              \* position in main
    lidx,             \* index of the participant being processed
    task_ids,         \* the list task_ids: (participant, task id) pairs
    llog,             \* the requests issued so far, with their outcome
    wasm_file         \* whether client-wasm/fl-client.wasm exists

patchVars == <<file, backup, ppc, content, original_content, presult,
               pclients, pdomain, pchannel, pass, fsLog, backup0, returned>>

roundVars == <<hpc, hsvc, round_id, hidx, task, model, update, update_payload,
              hlog, observed>>
serviceVars == <<cK, cUpdates, mStore>>

runVars == <<rpc, psvc, attempt, response, token_data, connection_data, token, domain, clients, cidx, channel, why, rlog>>
registryVars == <<env, second, dReg, cReg, chReg>>

localVars == <<lpc, lidx, task_ids, llog, wasm_file>>

vars == <<patchVars, roundVars, serviceVars, runVars, registryVars, localVars>>

----------------------------------------------------------------------------
(* Bounds *)

\* how many times the patch is applied in a row with the same inputs
MaxPasses == 2
\* how many fields a configuration document of Init holds at most
MaxFields == 3

----------------------------------------------------------------------------
(* Texts.  A value is a sequence of characters, so that the character      *)
(* class of the patterns is computed and not assumed.                      *)

\* a path of the file system: no file, or a file and its text
Absent == [exists |-> FALSE, text |-> <<>>]
File(doc) == [exists |-> TRUE, text |-> doc]

\* an identifier that is None or absent from a response
NoId == <<>>

HexChars == {"a", "b", "c", "d", "e", "f", "0", "1", "2", "3", "4", "5",
             "6", "7", "8", "9", "-"}

\* the group ([a-f0-9-]+): one or more characters of the class
IsHex(v) == Len(v) > 0 /\ \A i \in 1..Len(v) : v[i] \in HexChars

\* the default of client.get("credentials", {}).get("secret", "N/A")
NA == <<"N", "/", "A">>

----------------------------------------------------------------------------
(* update_compose_file: the patterns *)

\* A field of the document is a line  KEY: $<braces>KEY:-val<braces>  inside
\* a service section; braces is the number of braces that wrap the default
\* (1 is the syntax of compose files, ${KEY:-val}).
Field(section, key, braces, val) ==
    [section |-> section, key |-> key, braces |-> braces, val |-> val]

\* The four domain and channel patterns are plain raw strings: their doubled
\* braces are two literal braces.
domain_pattern == [key |-> "MANAGER_DOMAIN_ID", braces |-> 2]
proplet_domain_pattern == [key |-> "PROPLET_DOMAIN_ID", braces |-> 2]
channel_pattern == [key |-> "MANAGER_CHANNEL_ID", braces |-> 2]
proplet_channel_pattern == [key |-> "PROPLET_CHANNEL_ID", braces |-> 2]

\* The client patterns are raw f-strings: a doubled brace is one brace.
id_pattern(id_var) == [key |-> id_var, braces |-> 1]
key_pattern(key_var) == [key |-> key_var, braces |-> 1]

\* client_mapping; 'section' is recorded in the mapping and read nowhere
MappedNames == {"manager", "proplet-1", "proplet-2", "proplet-3"}
client_mapping(name) ==
    CASE name = "manager" ->
           [id_var |-> "MANAGER_CLIENT_ID", key_var |-> "MANAGER_CLIENT_KEY",
            section |-> "none"]
      [] name = "proplet-1" ->
           [id_var |-> "PROPLET_CLIENT_ID", key_var |-> "PROPLET_CLIENT_KEY",
            section |-> "proplet"]
      [] name = "proplet-2" ->
           [id_var |-> "PROPLET_CLIENT_ID", key_var |-> "PROPLET_CLIENT_KEY",
            section |-> "proplet-2"]
      [] name = "proplet-3" ->
           [id_var |-> "PROPLET_CLIENT_ID", key_var |-> "PROPLET_CLIENT_KEY",
            section |-> "proplet-3"]

\* whether the pattern matches the field
Matches(pat, f) ==
    f.key = pat.key /\ f.braces = pat.braces /\ IsHex(f.val)

\* re.sub with a replace that keeps the old default in front of the new one
re_sub_keep(pat, repl, doc) ==
    [i \in DOMAIN doc |->
        IF Matches(pat, doc[i])
        THEN [doc[i] EXCEPT !.val = doc[i].val \o repl]
        ELSE doc[i]]

\* re.sub(pattern, replace, content) with replace = group 1 + repl + group 3
re_sub(pat, repl, doc) ==
    [i \in DOMAIN doc |->
        IF Matches(pat, doc[i]) THEN [doc[i] EXCEPT !.val = repl] ELSE doc[i]]

\* lines 338-360: the domain and channel substitutions
PatchIds(doc, domain_id, channel_id) ==
    re_sub(proplet_channel_pattern, channel_id,
      re_sub(channel_pattern, channel_id,
        re_sub(proplet_domain_pattern, domain_id,
          re_sub(domain_pattern, domain_id, doc))))

\* lines 364-391: the body of the loop for one client
PatchClient(doc, client) ==
    IF client.name \notin MappedNames THEN doc
    ELSE LET mapping == client_mapping(client.name)
             client_id == client.id
             client_key == IF client.has_secret THEN client.secret ELSE NA
         IN  IF client_id = NoId \/ client_key = NA
             THEN doc
             ELSE re_sub(key_pattern(mapping.key_var), client_key,
                    re_sub(id_pattern(mapping.id_var), client_id, doc))

\* lines 363-391: the loop over clients.items(), in insertion order
RECURSIVE PatchClients(_, _)
PatchClients(doc, items) ==
    IF items = <<>> THEN doc
    ELSE PatchClients(PatchClient(doc, Head(items)), Tail(items))

\* lines 338-391: the text update_compose_file computes from the text it read
UpdateContent(doc, items, domain_id, channel_id) ==
    PatchClients(PatchIds(doc, domain_id, channel_id), items)

----------------------------------------------------------------------------
(* update_compose_file: the call, one file-system operation per action *)

\* what a step of the patch leaves alone
PatchFrame == UNCHANGED <<roundVars, serviceVars, runVars, registryVars, localVars>>

\* line 393: content != original_content
ChangedAlways(new, old) == TRUE
Changed(new, old) == new # old

\* lines 308-393 and 405: read the file, compute the new text, compare
PatchBegin ==
    /\ PatchFrame
    /\ ppc = "call"
    /\ fsLog' = <<>>
    /\ backup0' = backup
    /\ IF file = Absent
       THEN /\ presult' = "false"
            /\ returned' = Append(returned, "false")
            /\ ppc' = "returned"
            /\ UNCHANGED <<content, original_content>>
       ELSE LET new == UpdateContent(file.text, pclients, pdomain, pchannel)
            IN  /\ content' = new
                /\ original_content' = file.text
                /\ IF Changed(new, file.text)
                   THEN /\ ppc' = "unlink"
                        /\ presult' = "none"
                        /\ UNCHANGED returned
                   ELSE /\ ppc' = "returned"
                        /\ presult' = "false"
                        /\ returned' = Append(returned, "false")
    /\ UNCHANGED <<file, backup, pclients, pdomain, pchannel, pass>>

\* lines 395-397: remove the backup of an earlier run
PatchUnlink ==
    /\ PatchFrame
    /\ ppc = "unlink"
    /\ IF backup # Absent
       THEN backup' = Absent /\ fsLog' = Append(fsLog, "unlink")
       ELSE UNCHANGED <<backup, fsLog>>
    /\ ppc' = "rename"
    /\ UNCHANGED <<file, content, original_content, presult, pclients, pdomain,
                   pchannel, pass, backup0, returned>>

\* line 398: compose_file.rename(backup_path)
RenameEffectNoBackup == backup' = backup /\ file' = Absent
RenameEffect == backup' = file /\ file' = Absent
PatchRename ==
    /\ PatchFrame
    /\ ppc = "rename"
    /\ RenameEffect
    /\ fsLog' = Append(fsLog, "rename")
    /\ ppc' = "write"
    /\ UNCHANGED <<content, original_content, presult, pclients, pdomain,
                   pchannel, pass, backup0, returned>>

\* lines 402-403: compose_file.write_text(content); return True
PatchWrite ==
    /\ PatchFrame
    /\ ppc = "write"
    /\ file' = File(content)
    /\ fsLog' = Append(fsLog, "write")
    /\ presult' = "true"
    /\ returned' = Append(returned, "true")
    /\ ppc' = "returned"
    /\ UNCHANGED <<backup, content, original_content, pclients, pdomain,
                   pchannel, pass, backup0>>

\* main, lines 479-480, run once more with the same resolved inputs
PatchAgain ==
    /\ PatchFrame
    /\ ppc = "returned"
    /\ pass < MaxPasses
    /\ pass' = pass + 1
    /\ ppc' = "call"
    /\ UNCHANGED <<file, backup, content, original_content, presult, pclients,
                   pdomain, pchannel, fsLog, backup0, returned>>

----------------------------------------------------------------------------
(* The documents and the resolved inputs the patch is checked on *)

\* the fields of examples/fl-demo/compose.yaml the patterns are about, in
\* the order of the file, and one field no pattern names
Slots == <<
    [section |-> "manager",   key |-> "MANAGER_DOMAIN_ID"],
    [section |-> "manager",   key |-> "MANAGER_CHANNEL_ID"],
    [section |-> "manager",   key |-> "MANAGER_CLIENT_ID"],
    [section |-> "manager",   key |-> "MANAGER_CLIENT_KEY"],
    [section |-> "manager",   key |-> "MANAGER_LOG_LEVEL"],
    [section |-> "proplet",   key |-> "PROPLET_DOMAIN_ID"],
    [section |-> "proplet",   key |-> "PROPLET_CHANNEL_ID"],
    [section |-> "proplet",   key |-> "PROPLET_CLIENT_ID"],
    [section |-> "proplet",   key |-> "PROPLET_CLIENT_KEY"],
    [section |-> "proplet-2", key |-> "PROPLET_CLIENT_ID"],
    [section |-> "proplet-3", key |-> "PROPLET_CLIENT_ID"] >>

\* how a field is written: compose syntax with a hexadecimal placeholder,
\* compose syntax with a word, doubled braces with a hexadecimal placeholder
Styles == { [braces |-> 1, val |-> <<"0", "0">>],
            [braces |-> 1, val |-> <<"t", "b", "d">>],
            [braces |-> 2, val |-> <<"0", "0">>] }

Min(S) == CHOOSE x \in S : \A y \in S : x <= y

RECURSIVE DocOf(_, _)
DocOf(S, st) ==
    IF S = {} THEN <<>>
    ELSE LET i == Min(S)
         IN  <<Field(Slots[i].section, Slots[i].key, st[i].braces, st[i].val)>>
             \o DocOf(S \ {i}, st)

Docs ==
    UNION { { DocOf(S, st) : st \in [S -> Styles] } :
            S \in { T \in SUBSET (1..Len(Slots)) : Cardinality(T) <= MaxFields } }

\* a resolved client: the response of the creation (with credentials) or an
\* entry of the listing
Client(name, id, secret) ==
    [name |-> name, id |-> id, has_secret |-> TRUE, secret |-> secret]
ListedClient(name, id) ==
    [name |-> name, id |-> id, has_secret |-> FALSE, secret |-> <<>>]

\* resolved clients, as main collects them (in the order of CLIENT_NAMES)
ClientInputs == {
    \* everything created in this run: identifiers and secrets are UUIDs
    << Client("manager", <<"a", "1">>, <<"f", "1">>),
       Client("proplet-1", <<"a", "2">>, <<"f", "2">>),
       Client("proplet-2", <<"a", "3">>, <<"f", "3">>),
       Client("proplet-3", <<"a", "4">>, <<"f", "4">>),
       Client("fl-coordinator", <<"a", "5">>, <<"f", "5">>) >>,
    \* the manager was looked up (no credentials in the listing), one proplet
    << ListedClient("manager", <<"a", "1">>),
       Client("proplet-1", <<"a", "2">>, <<"f", "2">>) >>,
    \* secrets that are not hexadecimal
    << Client("manager", <<"c", "1">>, <<"k", "1">>),
       Client("proplet-2", <<"a", "3">>, <<"k", "3">>) >> }

\* a backup left by an earlier run
OldBackup == File(<< Field("manager", "MANAGER_LOG_LEVEL", 1, <<"o", "l", "d">>) >>)

\* no local update computed
NoUpdate == [base |-> "none", noise |-> 0]

\* no body of POST /update built
NoPayload == [num_samples |-> 0, loss |-> 0, update |-> NoUpdate]

\* the token request's answer: its status ("error": no answer) and what the
\* body holds under the two field names ("None": the field is missing)
TokenData(status, access_token, accessToken) ==
    [status |-> status, access_token |-> access_token, accessToken |-> accessToken]
NoTokenData == TokenData("none", "None", "None")

\* lines 275-279 and 288: what the connect request names
ConnectionData(domain_id, client_ids, channel_id) ==
    [domain_id |-> domain_id, client_ids |-> client_ids, channel_id |-> channel_id]
NoConnectionData == ConnectionData(0, <<>>, 0)

\* the two runs of the provisioning script
Runs == {1, 2}

\* no provisioning run, empty registry
ProvOff ==
    /\ rpc = [r \in Runs |-> "off"]
    /\ psvc = [r \in Runs |-> 0]
    /\ attempt = [r \in Runs |-> 0]
    /\ response = [r \in Runs |-> "none"]
    /\ token_data = [r \in Runs |-> NoTokenData]
    /\ connection_data = [r \in Runs |-> NoConnectionData]
    /\ token = [r \in Runs |-> FALSE]
    /\ domain = [r \in Runs |-> 0]
    /\ clients = [r \in Runs |-> <<>>]
    /\ cidx = [r \in Runs |-> 0]
    /\ channel = [r \in Runs |-> 0]
    /\ why = [r \in Runs |-> "none"]
    /\ rlog = [r \in Runs |-> <<>>]
    /\ env = "reliable"
    /\ second = "none"
    /\ dReg = <<>>
    /\ cReg = <<>>
    /\ chReg = <<>>

\* the task launcher is not running
LocalOff ==
    /\ lpc = "off"
    /\ lidx = 0
    /\ task_ids = <<>>
    /\ llog = <<>>
    /\ wasm_file = "present"

\* the round workflow is not running
RoundOff ==
    /\ hpc = "off"
    /\ hsvc = 0
    /\ round_id = "none"
    /\ hidx = 0
    /\ task = "none"
    /\ model = "none"
    /\ update = NoUpdate
    /\ update_payload = NoPayload
    /\ hlog = <<>>
    /\ observed = [seen |-> FALSE, completed |-> FALSE, num_updates |-> 0]
    /\ cK = 0
    /\ cUpdates = {}
    /\ mStore = {}

InitPatch ==
    /\ RoundOff
    /\ ProvOff
    /\ LocalOff
    /\ file \in {File(d) : d \in Docs} \cup {Absent}
    /\ backup \in {Absent, OldBackup}
    /\ ppc = "call"
    /\ content = <<>>
    /\ original_content = <<>>
    /\ presult = "none"
    /\ pclients \in ClientInputs
    /\ pdomain = <<"d", "1">>
    /\ pchannel = <<"e", "1">>
    /\ pass = 1
    /\ fsLog = <<>>
    /\ backup0 = backup
    /\ returned = <<>>

NextPatch ==
    \/ PatchBegin
    \/ PatchUnlink
    \/ PatchRename
    \/ PatchWrite
    \/ PatchAgain

SpecPatch == InitPatch /\ [][NextPatch]_vars

----------------------------------------------------------------------------
(* test-fl-http.py: the round workflow *)

\* the services verified before the run, lines 20-25
services == <<"Propeller Manager", "FL Coordinator", "Model Registry", "Aggregator">>

\* experiment_config, lines 64-77
participants == <<"proplet-1", "proplet-2", "proplet-3">>
k_of_n == 3
model_ref == "fl/models/global_model_v0"

\* what a request can meet: a 200 (or 201) answer, another status, or a
\* transport error (requests.exceptions.RequestException)
Outcomes == {"ok", "status", "error"}

\* random.uniform of lines 145-146 and 157, as the draw it returns
Noise == {0, 1}

\* shapes of the body of a 200 answer of GET /models/{version}: the
\* parameters at the top level, or nested under "model" as in the document
\* the script posts as the seed (lines 44-50)
ModelBodies == {"flat", "nested"}

Req(op, who, rid, res) == [op |-> op, who |-> who, rid |-> rid, res |-> res]

SvcFrame == UNCHANGED <<patchVars, runVars, registryVars, localVars>>

\* lines 27-37: one health check; anything but a 200 ends the run
HealthCheck ==
    /\ hpc = "health"
    /\ \E out \in Outcomes :
        /\ hlog' = Append(hlog, Req("health", services[hsvc], "none", out))
        /\ IF out # "ok"
           THEN hpc' = "exit1" /\ hsvc' = hsvc
           ELSE IF hsvc < Len(services)
                THEN hpc' = "health" /\ hsvc' = hsvc + 1
                ELSE hpc' = "seed_get" /\ hsvc' = hsvc
    /\ UNCHANGED <<round_id, hidx, task, model, update, update_payload, observed, serviceVars>>
    /\ SvcFrame

\* lines 42 and 59-60: the initial model is posted after an answer other
\* than 200; after a 200 and after a transport error it is not
AfterSeedGetAlways(out) == "seed_post"
AfterSeedGet(out) == IF out = "status" THEN "seed_post" ELSE "configure"

\* lines 40-42 and 59-60: is version 0 in the model registry
SeedGet ==
    /\ hpc = "seed_get"
    /\ \E out \in Outcomes :
        /\ out = "ok" => 0 \in mStore
        /\ hlog' = Append(hlog, Req("get_model", "0", "none", out))
        /\ hpc' = AfterSeedGet(out)
    /\ UNCHANGED <<hsvc, round_id, hidx, task, model, update, update_payload, observed,
                   serviceVars>>
    /\ SvcFrame

\* lines 43-60: post the initial model as version 0
SeedPost ==
    /\ hpc = "seed_post"
    /\ \E out \in Outcomes :
        /\ hlog' = Append(hlog, Req("post_model", "0", "none", out))
        /\ mStore' = IF out = "ok" THEN mStore \cup {0} ELSE mStore
        /\ hpc' = "configure"
    /\ UNCHANGED <<hsvc, round_id, hidx, task, model, update, update_payload, observed,
                   cK, cUpdates>>
    /\ SvcFrame

\* lines 86-94: where main goes after the experiment request
AfterConfigureBestEffort(out) == "fetch"
AfterConfigure(out) == IF out = "ok" THEN "fetch" ELSE "exit1"

\* lines 62-99: configure the experiment; the manager hands the round to the
\* coordinator
Configure ==
    /\ hpc = "configure"
    /\ \E out \in Outcomes :
        /\ hlog' = Append(hlog, Req("configure", "manager", round_id, out))
        /\ cK' = IF out = "ok" THEN k_of_n ELSE cK
        /\ hpc' = AfterConfigure(out)
    /\ hidx' = 1
    /\ UNCHANGED <<hsvc, round_id, task, model, update, update_payload, observed,
                   cUpdates, mStore>>
    /\ SvcFrame

\* the loop of line 104: the next participant, or the steps after the loop
NextParticipant ==
    IF hidx < Len(participants)
    THEN hpc' = "fetch" /\ hidx' = hidx + 1
    ELSE hpc' = "poll" /\ hidx' = hidx

\* line 109: the round the task is asked for
TaskRound == round_id

\* lines 107-119: GET /task for the current participant
FetchTask ==
    /\ hpc = "fetch"
    /\ \E out \in Outcomes :
        /\ hlog' = Append(hlog, Req("task", participants[hidx], TaskRound, out))
        /\ IF out # "ok"
           THEN NextParticipant /\ task' = "none"
           ELSE hpc' = "model" /\ hidx' = hidx /\ task' = model_ref
    /\ UNCHANGED <<hsvc, round_id, model, update, update_payload, observed, serviceVars>>
    /\ SvcFrame

\* lines 144-147: the local update, the base model's parameters moved by
\* the draws of random.uniform
ComputeLocalUpdate(base, noise) == [base |-> base, noise |-> noise]

\* lines 121-148: fetch the base model, then "train"; model["w"] of line 145
\* raises KeyError when the body has no "w" at its top level, and update
\* is then not assigned
FetchModel ==
    /\ hpc = "model"
    /\ \E out \in Outcomes, body \in ModelBodies, noise \in Noise :
        /\ out # "ok" => body = "flat"
        /\ hlog' = Append(hlog, Req("get_model", "0", "none", out))
        /\ model' = IF out = "ok" THEN body ELSE "default"
        /\ IF out = "ok" /\ body = "nested"
           THEN hpc' = "crashed" /\ update' = update
           ELSE hpc' = "submit" /\ update' = ComputeLocalUpdate(model', noise)
    /\ UNCHANGED <<hsvc, round_id, hidx, task, update_payload, observed, serviceVars>>
    /\ SvcFrame

\* line 152: the round the update is sent for
UpdateOtherRound == "r-other"
UpdateRound == round_id

\* the coordinator buffers an update under its round and participant
CoordinatorBuffer(buf, rid, who) == buf \cup {[rid |-> rid, who |-> who]}

\* line 155
num_samples == 512

\* lines 151-160: what the body of POST /update reports besides the round
\* and the participant; the loss is a draw of random.uniform
UpdatePayloadNoSamples(upd, loss) == [num_samples |-> 0, loss |-> loss, update |-> upd]
UpdatePayload(upd, loss) == [num_samples |-> num_samples, loss |-> loss, update |-> upd]

\* lines 150-174: POST /update with the local update
SubmitUpdate ==
    /\ hpc = "submit"
    /\ \E loss \in Noise : update_payload' = UpdatePayload(update, loss)
    /\ \E out \in Outcomes :
        /\ hlog' = Append(hlog, Req("update", participants[hidx], UpdateRound, out))
        /\ cUpdates' = IF out = "ok"
                       THEN CoordinatorBuffer(cUpdates, UpdateRound, participants[hidx])
                       ELSE cUpdates
    /\ NextParticipant
    /\ task' = "none"
    /\ model' = "none"
    /\ UNCHANGED <<hsvc, round_id, update, observed, cK, mStore>>
    /\ SvcFrame

\* line 186: the round whose completion is checked
PollOtherRound == "r-other"
PollRound == round_id

\* the coordinator's answer to the completion check of a round
RoundStatus(rid) ==
    LET n == Cardinality({u \in cUpdates : u.rid = rid})
    IN  [seen |-> TRUE, completed |-> (cK > 0 /\ n >= cK), num_updates |-> n]

\* lines 176-193: the single completion check
PollCompletion ==
    /\ hpc = "poll"
    /\ \E out \in Outcomes :
        /\ hlog' = Append(hlog, Req("complete", "coordinator", PollRound, out))
        /\ observed' = IF out = "ok" THEN RoundStatus(PollRound) ELSE observed
    /\ hpc' = "verify"
    /\ UNCHANGED <<hsvc, round_id, hidx, task, model, update, update_payload, serviceVars>>
    /\ SvcFrame

\* lines 195-208: look for the aggregated model, then end
Verify ==
    /\ hpc = "verify"
    /\ \E out \in Outcomes :
        hlog' = Append(hlog, Req("get_model", "1", "none", out))
    /\ hpc' = "done"
    /\ UNCHANGED <<hsvc, round_id, hidx, task, model, update, update_payload, observed,
                   serviceVars>>
    /\ SvcFrame

\* the patcher is not running
PatchOff ==
    /\ file = Absent
    /\ backup = Absent
    /\ ppc = "off"
    /\ content = <<>>
    /\ original_content = <<>>
    /\ presult = "none"
    /\ pclients = <<>>
    /\ pdomain = <<>>
    /\ pchannel = <<>>
    /\ pass = 0
    /\ fsLog = <<>>
    /\ backup0 = Absent
    /\ returned = <<>>

\* updates an earlier round left in the coordinator's buffer
StaleUpdates == { {}, {[rid |-> "r-other", who |-> "proplet-1"]} }

InitRound ==
    /\ PatchOff
    /\ ProvOff
    /\ LocalOff
    /\ hpc = "health"
    /\ hsvc = 1
    /\ round_id = "r-now"
    /\ hidx = 0
    /\ task = "none"
    /\ model = "none"
    /\ update = NoUpdate
    /\ update_payload = NoPayload
    /\ hlog = <<>>
    /\ observed = [seen |-> FALSE, completed |-> FALSE, num_updates |-> 0]
    /\ cK = 0
    /\ cUpdates \in StaleUpdates
    /\ mStore \in {{}, {0}}

NextRound ==
    \/ HealthCheck
    \/ SeedGet
    \/ SeedPost
    \/ Configure
    \/ FetchTask
    \/ FetchModel
    \/ SubmitUpdate
    \/ PollCompletion
    \/ Verify

SpecRound == InitRound /\ [][NextRound]_vars

----------------------------------------------------------------------------
(* examples/fl-demo/test-fl-local.py: one task per participant, created    *)
(* and started through the manager                                         *)

\* what POST /tasks can meet: 201 with the id at the top level of the body,
\* 201 with the id under "task", 201 with no id, another status, or a
\* transport error
CreateResponses == {"201id", "201nested", "201noid", "status", "error"}

\* line 95: task.get("id") or task.get("task", {}).get("id")
HasTaskId(resp) == resp \in {"201id", "201nested"}

\* the tasks the manager has created so far: one for every 201 it answered
ManagerTasks == Cardinality({i \in 1..Len(llog) :
                    llog[i].op = "create" /\ llog[i].res \in {"201id", "201nested", "201noid"}})

LReq(op, who, id, res) == [op |-> op, who |-> who, id |-> id, res |-> res]

LocalFrame == UNCHANGED <<patchVars, roundVars, serviceVars, runVars, registryVars>>

\* lines 17-35: the manager's health check; anything but a 200 ends the run
check_manager_health ==
    /\ lpc = "health"
    /\ \E out \in Outcomes :
        /\ llog' = Append(llog, LReq("health", "manager", 0, out))
        /\ lpc' = IF out = "ok" THEN "wasm" ELSE "exit1"
    /\ UNCHANGED <<lidx, task_ids, wasm_file>>
    /\ LocalFrame

\* lines 37-49: the WASM file must exist; it is read and encoded
ReadWasm ==
    /\ lpc = "wasm"
    /\ IF wasm_file = "missing"
       THEN lpc' = "exit1" /\ lidx' = lidx
       ELSE lpc' = "create" /\ lidx' = 1
    /\ UNCHANGED <<task_ids, llog, wasm_file>>
    /\ LocalFrame

\* lines 120-136: the exit of main once the loop is over
AfterTasks(ids) == IF ids # <<>> THEN "done" ELSE "exit1"

\* the loop of line 66: the next participant, or the end of main
NextTask(ids) ==
    IF lidx < Len(participants)
    THEN lpc' = "create" /\ lidx' = lidx + 1
    ELSE lpc' = AfterTasks(ids) /\ lidx' = lidx

\* lines 90-99: whether the task is started after the answer to POST /tasks
StartsAlways(resp) == resp \in {"201id", "201nested", "201noid"}
Starts(resp) == HasTaskId(resp)

\* lines 67-102 and 116-118: POST /tasks for the current participant
CreateTask ==
    /\ lpc = "create"
    /\ \E resp \in CreateResponses :
        LET id == IF HasTaskId(resp) THEN ManagerTasks + 1 ELSE 0
        IN  /\ llog' = Append(llog, LReq("create", participants[lidx], id, resp))
            /\ IF Starts(resp)
               THEN /\ task_ids' = Append(task_ids, <<participants[lidx], id>>)
                    /\ lpc' = "start"
                    /\ lidx' = lidx
               ELSE /\ task_ids' = task_ids
                    /\ NextTask(task_ids)
    /\ UNCHANGED wasm_file
    /\ LocalFrame

\* line 107: the task the start request names
task_id == task_ids[Len(task_ids)][2]

\* lines 104-118: POST /tasks/{task_id}/start; its outcome is only printed
StartTask ==
    /\ lpc = "start"
    /\ \E out \in Outcomes :
        llog' = Append(llog, LReq("start", participants[lidx], task_id, out))
    /\ NextTask(task_ids)
    /\ UNCHANGED <<task_ids, wasm_file>>
    /\ LocalFrame

InitLocal ==
    /\ PatchOff
    /\ ProvOff
    /\ RoundOff
    /\ lpc = "health"
    /\ lidx = 0
    /\ task_ids = <<>>
    /\ llog = <<>>
    /\ wasm_file \in {"present", "missing"}

NextLocal ==
    \/ check_manager_health
    \/ ReadWasm
    \/ CreateTask
    \/ StartTask

SpecLocal == InitLocal /\ [][NextLocal]_vars

----------------------------------------------------------------------------
(* provision-smq.py: constants and the registry *)

\* lines 24-27
DOMAIN_NAME == "fl-demo"
DOMAIN_ROUTE == "fl-demo"
CHANNEL_NAME == "fl"
CLIENT_NAMES == <<"manager", "proplet-1", "proplet-2", "proplet-3", "fl-coordinator">>

\* line 30, max_retries (30 in the script): health checks per service
max_retries == 3

\* lines 414-420 cut after the first service
probed_users_only == <<"Users">>

\* lines 414-420: the services probed, in order
probed_services == <<"Users", "Domains", "Clients", "Channels">>

Exits == {"exit0", "exit1"}

Upd(f, r, v) == [f EXCEPT ![r] = v]

Entry(op, name, res) == [op |-> op, name |-> name, res |-> res]
Logged(r, e) == rlog' = Upd(rlog, r, Append(rlog[r], e))

\* the registry refuses a domain whose route or name is taken
DomainTaken ==
    \E i \in 1..Len(dReg) :
        dReg[i].route = DOMAIN_ROUTE \/ dReg[i].name = DOMAIN_NAME
\* the registry refuses a second client (channel) of the same name in a domain
ClientTaken(dom, name) ==
    \E i \in 1..Len(cReg) : cReg[i].dom = dom /\ cReg[i].name = name
ChannelTaken(dom, name) ==
    \E i \in 1..Len(chReg) : chReg[i].dom = dom /\ chReg[i].name = name

\* what the services can answer.  In a reliable environment every request
\* is answered as section 6 of the specification describes; otherwise a
\* request can also meet another status ("2xx": a success status other than
\* 201, with the created resource in the body; "201noid": a 201 whose
\* body holds the client without an "id"; "err_status": a 4xx or 5xx the
\* code does not name) or a
\* transport error, and a conflict can be reported for a name that the
\* listing does not hold.
HealthResponses ==
    IF env = "reliable" THEN {"200", "404"} ELSE {"200", "404", "503", "error"}
LoginResponses ==
    {TokenData("200", "tok", "None"), TokenData("200", "None", "tok")}
    \cup (IF env = "reliable"
          THEN {}
          ELSE {TokenData("200", "", "tok"), TokenData("200", "None", "None"),
                TokenData("200", "", ""), TokenData("401", "None", "None"),
                TokenData("error", "None", "None")})
ListResponses ==
    IF env = "reliable" THEN {"ok"} ELSE {"ok", "err_status", "error"}
DomainPostResponses ==
    IF env = "reliable"
    THEN (IF DomainTaken THEN {"400route", "409"} ELSE {"201"})
    ELSE (IF DomainTaken THEN {} ELSE {"201", "2xx"})
         \cup {"400route", "400other", "409", "err_status", "error"}
ClientPostResponses(dom, name) ==
    IF env = "reliable"
    THEN (IF ClientTaken(dom, name) THEN {"409"} ELSE {"201"})
    ELSE (IF ClientTaken(dom, name) THEN {} ELSE {"201", "201noid", "2xx"})
         \cup {"409", "err_status", "error"}
ChannelPostResponses(dom, name) ==
    IF env = "reliable"
    THEN (IF ChannelTaken(dom, name) THEN {"409"} ELSE {"201"})
    ELSE (IF ChannelTaken(dom, name) THEN {} ELSE {"201", "2xx"})
         \cup {"409", "err_status", "error"}
ConnectResponses ==
    {"200", "201"}
    \cup (IF env = "reliable" THEN {} ELSE {"2xx", "err_status", "error"})

\* the answers with which the registry has created the resource
Creates(resp) == resp \in {"201", "201noid", "2xx"}

\* how the log names the answer of a creation request
PostResult(resp) ==
    CASE resp = "201" -> "created"
      [] resp = "201noid" -> "created_noid"
      [] resp = "2xx" -> "created_2xx"
      [] resp = "400route" -> "route_taken"
      [] resp = "409" -> "conflict"
      [] OTHER -> "failed"

\* identifiers and secrets as the texts the responses carry (UUIDs)
Digit == <<"0", "1", "2", "3", "4", "5", "6", "7", "8", "9">>
Digits(n) == <<Digit[(n \div 10) + 1], Digit[(n % 10) + 1]>>
DomainText(n) == <<"d">> \o Digits(n)
ChannelText(n) == <<"e">> \o Digits(n)
ClientText(n) == <<"c">> \o Digits(n)
SecretText(n) == <<"f">> \o Digits(n)

\* a resolved client of the run, as update_compose_file receives it
TextClient(c) ==
    [name |-> c.name, id |-> IF c.id = 0 THEN NoId ELSE ClientText(c.id),
     has_secret |-> c.has_secret,
     secret |-> IF c.has_secret THEN SecretText(c.id) ELSE <<>>]
TextClients(cs) == [i \in DOMAIN cs |-> TextClient(cs[i])]

----------------------------------------------------------------------------
(* provision-smq.py: main, one request per action *)

RunFrame == UNCHANGED <<roundVars, serviceVars, env, second, localVars>>
NoPatch == UNCHANGED patchVars

\* lines 408-411: the script is started; the second run is started while
\* the first is running, or after it has ended
Start(r) ==
    /\ rpc[r] = "start"
    /\ r = 2 => (second = "concurrent" \/ (second = "after" /\ rpc[1] \in Exits))
    /\ rpc' = Upd(rpc, r, "probe")
    /\ psvc' = Upd(psvc, r, 1)
    /\ UNCHANGED <<attempt, response, token_data, connection_data, token, domain, clients, cidx, channel, why, rlog,
                   dReg, cReg, chReg>>
    /\ RunFrame /\ NoPatch

\* line 36 with the 404 left out
UpOnly200(resp) == resp = "200"

\* line 36: the statuses that count as "up"
Up(resp) == resp \in {"200", "404"}

\* lines 30-43 and 414-421: one health check of wait_for_service
Probe(r) ==
    /\ rpc[r] = "probe"
    /\ \E resp \in HealthResponses :
        /\ response' = Upd(response, r, resp)
        /\ IF Up(resp)
           THEN /\ attempt' = Upd(attempt, r, 0)
                /\ IF psvc[r] < Len(probed_services)
                   THEN psvc' = Upd(psvc, r, psvc[r] + 1) /\ UNCHANGED rpc
                   ELSE rpc' = Upd(rpc, r, "login") /\ UNCHANGED psvc
                /\ UNCHANGED why
           ELSE /\ attempt' = Upd(attempt, r, attempt[r] + 1)
                /\ IF attempt[r] + 1 < max_retries
                   THEN UNCHANGED <<rpc, why>>
                   ELSE rpc' = Upd(rpc, r, "exit1") /\ why' = Upd(why, r, "readiness")
                /\ UNCHANGED psvc
    /\ UNCHANGED <<token_data, connection_data, token, domain, clients, cidx, channel, rlog, dReg, cReg, chReg>>
    /\ RunFrame /\ NoPatch

\* Python's truth value of a text or None
Truthy(v) == v \notin {"None", ""}

\* line 62 reading one field name only
access_token_only(d) == IF Truthy(d.access_token) THEN d.access_token ELSE "None"

\* line 62: token_data.get("access_token") or token_data.get("accessToken")
access_token(d) == IF Truthy(d.access_token) THEN d.access_token ELSE d.accessToken

\* lines 54-73: what login returns for the answer to its request
login(resp) ==
    IF resp.status = "200" /\ Truthy(access_token(resp))
    THEN access_token(resp)
    ELSE "None"

\* lines 46-73 and 424-427: login, one request
Login(r) ==
    /\ rpc[r] = "login"
    /\ \E resp \in LoginResponses :
        LET got == login(resp) # "None"
        IN  /\ token_data' = Upd(token_data, r, resp)
            /\ response' = Upd(response, r, "none")
            /\ token' = Upd(token, r, got)
            /\ Logged(r, Entry("login", "admin", IF got THEN "ok" ELSE "failed"))
            /\ IF got
               THEN rpc' = Upd(rpc, r, "domain_lookup") /\ UNCHANGED why
               ELSE rpc' = Upd(rpc, r, "exit1") /\ why' = Upd(why, r, "auth")
    /\ UNCHANGED <<psvc, attempt, connection_data, domain, clients, cidx, channel,
                   dReg, cReg, chReg>>
    /\ RunFrame /\ NoPatch

\* line 95: the test get_existing_domain applies to a listed domain
DomainMatchesNever(d) == FALSE
DomainMatches(d) == d.route = DOMAIN_ROUTE \/ d.name = DOMAIN_NAME

\* lines 94-98: the id of the first listed domain that matches, 0 for None
FindDomain(list) ==
    LET hits == {i \in 1..Len(list) : DomainMatches(list[i])}
    IN  IF hits = {} THEN 0 ELSE list[Min(hits)].id

\* lines 76-101: get_existing_domain, given the answer to GET /domains
get_existing_domain(resp) == IF resp = "ok" THEN FindDomain(dReg) ELSE 0

\* lines 109-111: create_domain first looks the domain up
DomainLookup(r) ==
    /\ rpc[r] = "domain_lookup"
    /\ \E resp \in ListResponses :
        LET found == get_existing_domain(resp)
        IN  /\ Logged(r, Entry("list_domains", DOMAIN_ROUTE,
                               IF resp = "ok" THEN "ok" ELSE "failed"))
            /\ domain' = Upd(domain, r, found)
            /\ IF found # 0
               THEN rpc' = Upd(rpc, r, "client_post") /\ cidx' = Upd(cidx, r, 1)
               ELSE rpc' = Upd(rpc, r, "domain_post") /\ UNCHANGED cidx
    /\ token_data' = Upd(token_data, r, NoTokenData)
    /\ UNCHANGED <<psvc, attempt, response, connection_data, token, clients, channel, why,
                   dReg, cReg, chReg>>
    /\ RunFrame /\ NoPatch

\* lines 133-165: what create_domain does with the answer to POST /domains:
\* "created", "lookup" (fetch the existing domain) or "none" (return None)
DomainPostBranch(resp) ==
    CASE resp = "201" -> "created"
      [] resp \in {"400route", "409"} -> "lookup"
      [] OTHER -> "none"

\* lines 113-165 and 430-434: POST /domains
DomainPost(r) ==
    /\ rpc[r] = "domain_post"
    /\ \E resp \in DomainPostResponses :
        LET branch == DomainPostBranch(resp)
            id == Len(dReg) + 1
        IN  /\ Logged(r, Entry("post_domain", DOMAIN_ROUTE, PostResult(resp)))
            /\ dReg' = IF Creates(resp)
                       THEN Append(dReg, [id |-> id, name |-> DOMAIN_NAME,
                                          route |-> DOMAIN_ROUTE, by |-> r])
                       ELSE dReg
            /\ CASE branch = "created" ->
                      /\ domain' = Upd(domain, r, id)
                      /\ rpc' = Upd(rpc, r, "client_post")
                      /\ cidx' = Upd(cidx, r, 1)
                      /\ UNCHANGED why
                 [] branch = "lookup" ->
                      /\ rpc' = Upd(rpc, r, "domain_relist")
                      /\ UNCHANGED <<domain, cidx, why>>
                 [] OTHER ->
                      /\ rpc' = Upd(rpc, r, "exit1")
                      /\ why' = Upd(why, r, "domain")
                      /\ UNCHANGED <<domain, cidx>>
    /\ UNCHANGED <<psvc, attempt, response, token_data, connection_data, token, clients, channel, cReg, chReg>>
    /\ RunFrame /\ NoPatch

\* lines 139-158 and 430-434: the lookup after a reported conflict
DomainRelist(r) ==
    /\ rpc[r] = "domain_relist"
    /\ \E resp \in ListResponses :
        LET found == get_existing_domain(resp)
        IN  /\ Logged(r, Entry("list_domains", DOMAIN_ROUTE,
                               IF resp = "ok" THEN "ok" ELSE "failed"))
            /\ domain' = Upd(domain, r, found)
            /\ IF found # 0
               THEN /\ rpc' = Upd(rpc, r, "client_post")
                    /\ cidx' = Upd(cidx, r, 1)
                    /\ UNCHANGED why
               ELSE /\ rpc' = Upd(rpc, r, "exit1")
                    /\ why' = Upd(why, r, "domain")
                    /\ UNCHANGED cidx
    /\ UNCHANGED <<psvc, attempt, response, token_data, connection_data, token, clients, channel, dReg, cReg, chReg>>
    /\ RunFrame /\ NoPatch

\* lines 446-448: after the loop, no client at all ends the run
AfterClientsAlways(resolved) == "channel_post"
AfterClients(resolved) == IF resolved = <<>> THEN "exit1" ELSE "channel_post"

\* line 439 as a loop that ends after its first name
MoreClientsNever(i) == FALSE

\* line 439: the loop goes on while CLIENT_NAMES holds another name
MoreClients(i) == i < Len(CLIENT_NAMES)

\* lines 439-448: the next name of CLIENT_NAMES, or the step after the loop
NextClient(r, resolved) ==
    IF MoreClients(cidx[r])
    THEN /\ cidx' = Upd(cidx, r, cidx[r] + 1)
         /\ rpc' = Upd(rpc, r, "client_post")
         /\ UNCHANGED why
    ELSE /\ UNCHANGED cidx
         /\ rpc' = Upd(rpc, r, AfterClients(resolved))
         /\ why' = IF AfterClients(resolved) = "exit1"
                   THEN Upd(why, r, "clients") ELSE why

\* lines 189-216 with a lookup after every answer but 201
ClientPostBranchEagerLookup(resp) ==
    IF resp \in {"201", "201noid"} THEN "created" ELSE "lookup"

\* lines 189-216: what create_client does with the answer to POST clients
ClientPostBranch(resp) ==
    CASE resp \in {"201", "201noid"} -> "created"
      [] resp = "409" -> "lookup"
      [] OTHER -> "none"

\* lines 168-216 and 439-444: POST /{domain_id}/clients for one name
ClientPost(r) ==
    /\ rpc[r] = "client_post"
    /\ LET name == CLIENT_NAMES[cidx[r]]
       IN \E resp \in ClientPostResponses(domain[r], name) :
            LET branch == ClientPostBranch(resp)
                id == Len(cReg) + 1
            IN  /\ Logged(r, Entry("post_client", name, PostResult(resp)))
                /\ cReg' = IF Creates(resp)
                           THEN Append(cReg, [id |-> id, name |-> name,
                                              dom |-> domain[r], by |-> r])
                           ELSE cReg
                /\ CASE branch = "created" ->
                          LET resolved == Append(clients[r],
                                  [name |-> name,
                                   id |-> IF resp = "201noid" THEN 0 ELSE id,
                                   has_secret |-> TRUE])
                          IN  /\ clients' = Upd(clients, r, resolved)
                              /\ NextClient(r, resolved)
                     [] branch = "lookup" ->
                          /\ rpc' = Upd(rpc, r, "client_list")
                          /\ UNCHANGED <<clients, cidx, why>>
                     [] OTHER ->
                          /\ UNCHANGED clients
                          /\ NextClient(r, clients[r])
    /\ UNCHANGED <<psvc, attempt, response, token_data, connection_data, token, domain, channel, dReg, chReg>>
    /\ RunFrame /\ NoPatch

\* lines 203-209 and 254-260: the id of the first listed entry of that name
FindNamedNever(list, name) == 0
FindNamed(list, name) ==
    LET hits == {i \in 1..Len(list) : list[i].name = name}
    IN  IF hits = {} THEN 0 ELSE list[Min(hits)].id

\* the listing of a domain's clients (channels): the registry applies the
\* name filter of the request, or returns every entry of the domain
Listing(reg, dom, name, filtered) ==
    SelectSeq(reg, LAMBDA e : e.dom = dom /\ (filtered => e.name = name))

\* lines 193-209 and 439-444: the lookup after a 409
ClientList(r) ==
    /\ rpc[r] = "client_list"
    /\ LET name == CLIENT_NAMES[cidx[r]]
       IN \E resp \in ListResponses, filtered \in BOOLEAN :
            LET found == IF resp = "ok"
                         THEN FindNamed(Listing(cReg, domain[r], name, filtered), name)
                         ELSE 0
                resolved == IF found # 0
                            THEN Append(clients[r],
                                   [name |-> name, id |-> found, has_secret |-> FALSE])
                            ELSE clients[r]
            IN  /\ Logged(r, Entry("list_clients", name,
                                   IF resp = "ok" THEN "ok" ELSE "failed"))
                /\ clients' = Upd(clients, r, resolved)
                /\ NextClient(r, resolved)
    /\ UNCHANGED <<psvc, attempt, response, token_data, connection_data, token, domain, channel, dReg, cReg, chReg>>
    /\ RunFrame /\ NoPatch

\* lines 240-267: what create_channel does with the answer to POST channels
ChannelPostBranch(resp) ==
    CASE resp = "201" -> "created"
      [] resp = "409" -> "lookup"
      [] OTHER -> "none"

\* lines 219-267 and 451-455: POST /{domain_id}/channels
ChannelPost(r) ==
    /\ rpc[r] = "channel_post"
    /\ \E resp \in ChannelPostResponses(domain[r], CHANNEL_NAME) :
        LET branch == ChannelPostBranch(resp)
            id == Len(chReg) + 1
        IN  /\ Logged(r, Entry("post_channel", CHANNEL_NAME, PostResult(resp)))
            /\ chReg' = IF Creates(resp)
                        THEN Append(chReg, [id |-> id, name |-> CHANNEL_NAME,
                                            dom |-> domain[r], by |-> r])
                        ELSE chReg
            /\ CASE branch = "created" ->
                      /\ channel' = Upd(channel, r, id)
                      /\ rpc' = Upd(rpc, r, "connect")
                      /\ UNCHANGED why
                 [] branch = "lookup" ->
                      /\ rpc' = Upd(rpc, r, "channel_list")
                      /\ UNCHANGED <<channel, why>>
                 [] OTHER ->
                      /\ rpc' = Upd(rpc, r, "exit1")
                      /\ why' = Upd(why, r, "channel")
                      /\ UNCHANGED channel
    /\ UNCHANGED <<psvc, attempt, response, token_data, connection_data, token, domain, clients, cidx, dReg, cReg>>
    /\ RunFrame /\ NoPatch

\* lines 244-260 and 451-455: the lookup after a 409
ChannelList(r) ==
    /\ rpc[r] = "channel_list"
    /\ \E resp \in ListResponses, filtered \in BOOLEAN :
        LET found == IF resp = "ok"
                     THEN FindNamed(Listing(chReg, domain[r], CHANNEL_NAME, filtered),
                                    CHANNEL_NAME)
                     ELSE 0
        IN  /\ Logged(r, Entry("list_channels", CHANNEL_NAME,
                               IF resp = "ok" THEN "ok" ELSE "failed"))
            /\ channel' = Upd(channel, r, found)
            /\ IF found # 0
               THEN rpc' = Upd(rpc, r, "connect") /\ UNCHANGED why
               ELSE rpc' = Upd(rpc, r, "exit1") /\ why' = Upd(why, r, "channel")
    /\ UNCHANGED <<psvc, attempt, response, token_data, connection_data, token, domain, clients, cidx, dReg, cReg, chReg>>
    /\ RunFrame /\ NoPatch

\* line 458: [c.get("id") for c in clients.values() if c.get("id")]
RECURSIVE client_ids(_)
client_ids(cs) ==
    IF cs = <<>> THEN <<>>
    ELSE (IF Head(cs).id # 0 THEN <<Head(cs).id>> ELSE <<>>) \o client_ids(Tail(cs))

\* lines 294-303: the truth value of what connect_clients_to_channel returns
connect_clients_to_channel(resp) == resp \in {"200", "201"}

\* lines 459-460 as a fatal step
AfterConnectFatal(connected) == IF connected THEN "patch" ELSE "exit1"

\* lines 459-460: a failed connection is a warning, main goes on
AfterConnect(connected) == "patch"

\* lines 270-303 and 457-460: the single connect request; its result is
\* only reported
Connect(r) ==
    /\ rpc[r] = "connect"
    /\ connection_data' =
         Upd(connection_data, r,
             ConnectionData(domain[r], client_ids(clients[r]), channel[r]))
    /\ \E resp \in ConnectResponses :
        LET connected == connect_clients_to_channel(resp)
        IN  /\ Logged(r, Entry("connect", CHANNEL_NAME,
                               IF connected THEN "ok" ELSE "failed"))
            /\ rpc' = Upd(rpc, r, AfterConnect(connected))
    /\ UNCHANGED <<psvc, attempt, response, token_data, token, domain, clients, cidx, channel, why,
                   dReg, cReg, chReg>>
    /\ RunFrame /\ NoPatch

\* lines 462-488: the summary, then update_compose_file as one step
Patch(r) ==
    /\ rpc[r] = "patch"
    /\ LET new == UpdateContent(file.text, TextClients(clients[r]),
                                DomainText(domain[r]), ChannelText(channel[r]))
           write == file.exists /\ Changed(new, file.text)
       IN  /\ file' = IF write THEN File(new) ELSE file
           /\ backup' = IF write THEN file ELSE backup
           /\ Logged(r, Entry("patch", "compose.yaml",
                              IF write THEN "true" ELSE "false"))
    /\ rpc' = Upd(rpc, r, "exit0")
    /\ UNCHANGED <<ppc, content, original_content, presult, pclients, pdomain,
                   pchannel, pass, fsLog, backup0, returned>>
    /\ UNCHANGED <<psvc, attempt, response, token_data, connection_data, token, domain, clients, cidx, channel, why,
                   dReg, cReg, chReg>>
    /\ RunFrame

----------------------------------------------------------------------------
(* The registries and the files a provisioning run starts from *)

\* a domain of the desired name under another route, a domain of another
\* name under the desired route, the domain an earlier run created
DomainX == [name |-> DOMAIN_NAME, route |-> "other-route", by |-> 0]
DomainY == [name |-> "other-name", route |-> DOMAIN_ROUTE, by |-> 0]
DomainD == [name |-> DOMAIN_NAME, route |-> DOMAIN_ROUTE, by |-> 0]

Numbered(seq) == [i \in DOMAIN seq |-> [id |-> i] @@ seq[i]]

DomainSeeds ==
    { <<>>, <<DomainD>>, <<DomainX>>, <<DomainX, DomainY>>, <<DomainY, DomainX>> }

\* what an earlier, interrupted run left in its domain: two clients
ClientSeeds(doms) ==
    IF doms = <<DomainD>>
    THEN Numbered(<< [name |-> "manager", dom |-> 1, by |-> 0],
                     [name |-> "proplet-1", dom |-> 1, by |-> 0] >>)
    ELSE <<>>

\* compose.yaml as the repository ships it: every field, compose syntax
ShippedCompose ==
    File(DocOf(1..Len(Slots), [i \in 1..Len(Slots) |-> [braces |-> 1, val |-> <<"0", "0">>]]))

InitRuns(envs, seconds) ==
    /\ RoundOff
    /\ LocalOff
    /\ file = ShippedCompose
    /\ backup = Absent
    /\ ppc = "off"
    /\ content = <<>>
    /\ original_content = <<>>
    /\ presult = "none"
    /\ pclients = <<>>
    /\ pdomain = <<>>
    /\ pchannel = <<>>
    /\ pass = 0
    /\ fsLog = <<>>
    /\ backup0 = Absent
    /\ returned = <<>>
    /\ env \in envs
    /\ second \in seconds
    /\ rpc = [r \in Runs |-> IF r = 2 /\ second = "none" THEN "off" ELSE "start"]
    /\ psvc = [r \in Runs |-> 0]
    /\ attempt = [r \in Runs |-> 0]
    /\ response = [r \in Runs |-> "none"]
    /\ token_data = [r \in Runs |-> NoTokenData]
    /\ connection_data = [r \in Runs |-> NoConnectionData]
    /\ token = [r \in Runs |-> FALSE]
    /\ domain = [r \in Runs |-> 0]
    /\ clients = [r \in Runs |-> <<>>]
    /\ cidx = [r \in Runs |-> 0]
    /\ channel = [r \in Runs |-> 0]
    /\ why = [r \in Runs |-> "none"]
    /\ rlog = [r \in Runs |-> <<>>]
    /\ \E doms \in DomainSeeds :
        /\ dReg = Numbered(doms)
        /\ cReg = ClientSeeds(doms)
    /\ chReg = <<>>

NextRun ==
    \E r \in Runs :
        \/ Start(r)
        \/ Probe(r)
        \/ Login(r)
        \/ DomainLookup(r)
        \/ DomainPost(r)
        \/ DomainRelist(r)
        \/ ClientPost(r)
        \/ ClientList(r)
        \/ ChannelPost(r)
        \/ ChannelList(r)
        \/ Connect(r)
        \/ Patch(r)

\* one run of the script against services that may fail
InitProv == InitRuns({"faulty"}, {"none"})
SpecProv == InitProv /\ [][NextRun]_vars

\* two runs of the script, one after the other or interleaved, against a
\* registry that answers every request as specified
InitTwoRuns == InitRuns({"reliable"}, {"after", "concurrent"})
SpecTwoRuns == InitTwoRuns /\ [][NextRun]_vars

\* the readiness phase of one run alone: the four wait_for_service calls of
\* lines 414-421.  Every health check is answered or times out (timeout=2,
\* line 35) and the loop then goes on at once, hence the weak fairness.
NextWait == \E r \in Runs : Start(r) \/ Probe(r)
SpecWait == InitProv /\ [][NextWait]_vars /\ WF_vars(NextWait)

----------------------------------------------------------------------------
(* Properties of the provisioning run *)

Did(r, op) == \E i \in 1..Len(rlog[r]) : rlog[r][i].op = op
CreatedBy(r) ==
    {<<"domain", dReg[i].id>> : i \in {j \in 1..Len(dReg) : dReg[j].by = r}}
    \cup {<<"client", cReg[i].id>> : i \in {j \in 1..Len(cReg) : cReg[j].by = r}}
    \cup {<<"channel", chReg[i].id>> : i \in {j \in 1..Len(chReg) : chReg[j].by = r}}

\* the run resolved the domain, every name of CLIENT_NAMES and the channel
ResolvedAll(r) ==
    /\ domain[r] # 0
    /\ channel[r] # 0
    /\ Len(clients[r]) = Len(CLIENT_NAMES)
    /\ \A i \in 1..Len(CLIENT_NAMES) : clients[r][i].name = CLIENT_NAMES[i]

\* C1: two runs in sequence against a registry that enforces uniqueness and
\* answers every request resolve the same Domain id, the same id for every
\* Client name and the same Channel id, and the second run creates nothing.
C1_Idempotent ==
    (second = "after" /\ rpc[2] \in Exits)
    => /\ rpc[1] = "exit0" /\ rpc[2] = "exit0"
       /\ ResolvedAll(1) /\ ResolvedAll(2)
       /\ domain[1] = domain[2]
       /\ channel[1] = channel[2]
       /\ \A i \in 1..Len(CLIENT_NAMES) : clients[1][i].id = clients[2][i].id
       /\ CreatedBy(2) = {}

\* C1 witness: the first run created the domain, the second run has ended
C1_Witness ==
    /\ second = "after"
    /\ rpc[2] = "exit0"
    /\ <<"domain", domain[2]>> \in CreatedBy(1)
    /\ Did(2, "list_clients")

\* C2: however two runs interleave against a registry that enforces
\* uniqueness, there is at most one Domain of the desired route, one Client
\* per name and one Channel of the desired name in a domain; every conflict
\* resolves to a lookup, so a run that ends has resolved everything; and what
\* both runs resolve they resolve to the same id.
C2_NoDuplicates ==
    /\ Cardinality({i \in 1..Len(dReg) : dReg[i].route = DOMAIN_ROUTE}) <= 1
    /\ \A i, j \in 1..Len(cReg) :
         (cReg[i].dom = cReg[j].dom /\ cReg[i].name = cReg[j].name) => i = j
    /\ \A i, j \in 1..Len(chReg) :
         (chReg[i].dom = chReg[j].dom /\ chReg[i].name = chReg[j].name) => i = j
    /\ \A r \in Runs : rpc[r] \in Exits => rpc[r] = "exit0" /\ ResolvedAll(r)
    /\ (domain[1] # 0 /\ domain[2] # 0) => domain[1] = domain[2]
    /\ (channel[1] # 0 /\ channel[2] # 0) => channel[1] = channel[2]
    /\ \A i \in 1..Len(clients[1]), j \in 1..Len(clients[2]) :
         clients[1][i].name = clients[2][j].name
           => clients[1][i].id = clients[2][j].id

\* C2 witness: two interleaved runs, each of which created something, ended
C2_Witness ==
    /\ second = "concurrent"
    /\ rpc[1] = "exit0" /\ rpc[2] = "exit0"
    /\ CreatedBy(1) # {} /\ CreatedBy(2) # {}
    /\ \E i \in 1..Len(rlog[1]) : rlog[1][i].res \in {"conflict", "route_taken"}
    /\ \E i \in 1..Len(rlog[2]) : rlog[2][i].res \in {"conflict", "route_taken"}

\* the step is one health check of run r
IsProbe(r) ==
    /\ rpc[r] = "probe"
    /\ <<rpc[r], psvc[r], attempt[r]>> # <<rpc'[r], psvc'[r], attempt'[r]>>

\* the call of wait_for_service for service s is running in run r
Waiting(r, s) == rpc[r] = "probe" /\ psvc[r] = s

\* C11: wait_for_service issues at most max_retries health checks; the first
\* check answered 200 or 404 makes it return True with no further check
\* (the run goes on to the next service, or to login after the last one);
\* every other status and every transport error counts as a failed attempt
\* that is retried; it returns False (the run ends, status 1) exactly when
\* max_retries attempts have failed; and every call terminates.
C11_WaitForService ==
    /\ [][\A r \in Runs :
            IsProbe(r)
            => /\ attempt[r] < max_retries
               /\ response'[r] \in {"200", "404"}
                    => /\ attempt'[r] = 0
                       /\ why'[r] = "none"
                       /\ IF psvc[r] < Len(probed_services)
                          THEN rpc'[r] = "probe" /\ psvc'[r] = psvc[r] + 1
                          ELSE rpc'[r] = "login" /\ psvc'[r] = psvc[r]
               /\ response'[r] \notin {"200", "404"}
                    => /\ attempt'[r] = attempt[r] + 1
                       /\ psvc'[r] = psvc[r]
                       /\ IF attempt'[r] = max_retries
                          THEN rpc'[r] = "exit1" /\ why'[r] = "readiness"
                          ELSE rpc'[r] = "probe" /\ why'[r] = "none"]_vars
    /\ \A s \in 1..Len(probed_services) :
          Waiting(1, s) ~> ~Waiting(1, s)

\* C11 witness: the first call returned True after a failed attempt was
\* retried, the second call returned False after max_retries failures
C11_Witness ==
    /\ rpc[1] = "exit1"
    /\ why[1] = "readiness"
    /\ psvc[1] = 2
    /\ attempt[1] = max_retries
    /\ response[1] \in {"503", "error"}

\* the services whose wait_for_service call has returned True in run r
ServicesUp(r) ==
    { probed_services[i] :
        i \in { j \in 1..psvc[r] :
                   j < psvc[r] \/ (rpc[r] # "probe" /\ why[r] # "readiness") } }

\* C12: login is attempted only after the readiness probes of Users,
\* Domains, Clients and Channels have all succeeded; a run that a probe
\* exhausted has ended with status 1, has issued no login, domain, client,
\* channel or connect request and has not touched the configuration file.
C12_ProbesGateLogin ==
    \A r \in Runs :
        /\ (rpc[r] = "login" \/ Did(r, "login"))
             => ServicesUp(r) = {"Users", "Domains", "Clients", "Channels"}
        /\ ServicesUp(r) # {"Users", "Domains", "Clients", "Channels"}
             => rpc[r] \in {"off", "start", "probe", "exit1"}
        /\ why[r] = "readiness"
             => /\ rpc[r] = "exit1"
                /\ attempt[r] = max_retries
                /\ rlog[r] = <<>>
                /\ ~token[r] /\ domain[r] = 0 /\ clients[r] = <<>> /\ channel[r] = 0
                /\ CreatedBy(r) = {}
                /\ file = ShippedCompose /\ backup = Absent /\ ppc = "off"

\* C12 witness: the login request was issued, after four successful probes
C12_Witness ==
    /\ Did(1, "login")
    /\ ServicesUp(1) = {"Users", "Domains", "Clients", "Channels"}
    /\ token[1]

\* how often run r has issued the request op
Count(r, op) == Cardinality({i \in 1..Len(rlog[r]) : rlog[r][i].op = op})

\* the answer to the token request is successful and carries a non-empty
\* value under one of the two field names
CarriesToken(d) ==
    /\ d.status = "200"
    /\ (d.access_token \notin {"None", ""} \/ d.accessToken \notin {"None", ""})

\* C13: login issues one token request and never retries; it yields a token
\* exactly when the answer is successful and carries a non-empty value under
\* access_token or under accessToken; on a transport error, a failure
\* status or an absent token it yields none, and the run then ends with
\* status 1 before any domain, client or channel request.
C13_LoginOnce ==
    \A r \in Runs :
        /\ Count(r, "login") <= 1
        /\ token[r] => Did(r, "login")
        /\ token_data[r] # NoTokenData
             => /\ Count(r, "login") = 1
                /\ Len(rlog[r]) = 1
                /\ token[r] <=> CarriesToken(token_data[r])
                /\ rpc[r] = (IF token[r] THEN "domain_lookup" ELSE "exit1")
        /\ (Did(r, "login") /\ ~token[r])
             => /\ token_data[r] # NoTokenData
                /\ rpc[r] = "exit1"
                /\ why[r] = "auth"
                /\ domain[r] = 0 /\ clients[r] = <<>> /\ channel[r] = 0
                /\ CreatedBy(r) = {}

\* C13 witness: the token came under accessToken, the run goes on to the
\* domain
C13_Witness ==
    /\ token[1]
    /\ rpc[1] = "domain_lookup"
    /\ ~Truthy(token_data[1].access_token)
    /\ token_data[1].accessToken = "tok"

\* C14: the connection is one batch request that is never retried, and its
\* failure (a failure status or a transport error) is only a warning: the
\* run goes on to the summary and the configuration patch and ends with
\* status 0.
C14_ConnectFailureIsWarning ==
    \A r \in Runs :
        /\ Count(r, "connect") <= 1
        /\ Did(r, "connect")
             => /\ rpc[r] \in {"patch", "exit0"}
                /\ why[r] = "none"
        /\ rpc[r] = "patch" => rlog[r][Len(rlog[r])].op = "connect"
        /\ rpc[r] = "exit0"
             => /\ Len(rlog[r]) >= 2
                /\ rlog[r][Len(rlog[r]) - 1].op = "connect"
                /\ rlog[r][Len(rlog[r])].op = "patch"

\* C14 witness: the connect request failed, the patch was applied and the
\* run ended with status 0
C14_Witness ==
    /\ rpc[1] = "exit0"
    /\ \E i \in 1..Len(rlog[1]) :
         rlog[1][i] = Entry("connect", CHANNEL_NAME, "failed")
    /\ rlog[1][Len(rlog[1])] = Entry("patch", "compose.yaml", "true")

\* run r got a success status for the creation request op of that name
GotSuccess(r, op, name) ==
    \E i \in 1..Len(rlog[r]) :
        /\ rlog[r][i].op = op
        /\ rlog[r][i].name = name
        /\ rlog[r][i].res \in {"created", "created_2xx"}

\* C15: for Domain, Client and Channel, a creation request answered with any
\* 2xx status is treated as successful and the returned resource is recorded
\* as the resolved one.
C15_Any2xxIsSuccess ==
    \A r \in Runs :
        /\ GotSuccess(r, "post_domain", DOMAIN_ROUTE)
             => <<"domain", domain[r]>> \in CreatedBy(r)
        /\ \A n \in 1..Len(CLIENT_NAMES) :
             GotSuccess(r, "post_client", CLIENT_NAMES[n])
             => \E j \in 1..Len(clients[r]) :
                    /\ clients[r][j].name = CLIENT_NAMES[n]
                    /\ <<"client", clients[r][j].id>> \in CreatedBy(r)
        /\ GotSuccess(r, "post_channel", CHANNEL_NAME)
             => <<"channel", channel[r]>> \in CreatedBy(r)

\* the request before the i-th request of run r was the creation request op
\* for that name, and it was answered with a conflict
AfterConflict(r, i, op, name) ==
    /\ i > 1
    /\ rlog[r][i - 1].op = op
    /\ rlog[r][i - 1].name = name
    /\ rlog[r][i - 1].res \in {"conflict", "route_taken"}

\* C16 as stated: for Domain, Client and Channel alike every lookup (list
\* request) comes directly after a creation request for that resource that
\* the server answered with a conflict.
C16_CreateBeforeLookup ==
    \A r \in Runs : \A i \in 1..Len(rlog[r]) :
        LET e == rlog[r][i]
        IN  /\ e.op = "list_domains" => AfterConflict(r, i, "post_domain", e.name)
            /\ e.op = "list_clients" => AfterConflict(r, i, "post_client", e.name)
            /\ e.op = "list_channels" => AfterConflict(r, i, "post_channel", e.name)

\* C16 amended: for every Client and for the Channel creation is attempted
\* first and the lookup comes only directly after a conflict reported for
\* that creation.  For the Domain the lookup comes first, directly after the
\* login; creation is attempted only directly after that lookup, when it
\* found no domain, and a second lookup comes only directly after a
\* conflict reported for the creation.
C16_DomainLookupFirst ==
    \A r \in Runs : \A i \in 1..Len(rlog[r]) :
        LET e == rlog[r][i]
        IN  /\ e.op = "list_clients" => AfterConflict(r, i, "post_client", e.name)
            /\ e.op = "list_channels" => AfterConflict(r, i, "post_channel", e.name)
            /\ e.op = "list_domains"
                 => \/ i = 2 /\ rlog[r][1].op = "login"
                    \/ i = 4 /\ AfterConflict(r, i, "post_domain", e.name)
            /\ e.op = "post_domain"
                 => /\ i = 3
                    /\ rlog[r][2].op = "list_domains"
                    /\ rlog[r][2].res = "ok"
                         => \A k \in 1..Len(dReg) :
                                dReg[k].by = 0 => ~DomainMatches(dReg[k])
            /\ e.op \in {"post_client", "post_channel"}
                 => /\ rlog[r][2].op = "list_domains"
                    /\ domain[r] # 0
            /\ i = 2 => e.op = "list_domains"

\* C16 witness: the domain was looked up, not found, created; then a client
\* was looked up after a conflict
C16_Witness ==
    /\ Len(rlog[1]) >= 5
    /\ rlog[1][2].op = "list_domains"
    /\ rlog[1][3] = Entry("post_domain", DOMAIN_ROUTE, "created")
    /\ rlog[1][4] = Entry("post_client", "manager", "conflict")
    /\ rlog[1][5].op = "list_clients"

\* the ids the registry holds
Ids(reg) == {reg[i].id : i \in 1..Len(reg)}

\* C17: the connect request is issued only after the Domain, the Channel and
\* at least one Client have been resolved to an existing id: its domain id
\* and its channel id are ids the registry returned, its list of client ids
\* is not empty, and every id in the list is the id of a Client resolved in
\* this run.
C17_ConnectAfterResolution ==
    \A r \in Runs :
        Did(r, "connect")
        => LET d == connection_data[r]
           IN  /\ d.domain_id = domain[r] /\ d.domain_id \in Ids(dReg)
               /\ d.channel_id = channel[r] /\ d.channel_id \in Ids(chReg)
               /\ d.client_ids # <<>>
               /\ \A i \in 1..Len(d.client_ids) :
                    /\ d.client_ids[i] \in Ids(cReg)
                    /\ \E j \in 1..Len(clients[r]) :
                         clients[r][j].id = d.client_ids[i]

\* the creation requests for clients that run r has issued, in order
ClientPosts(r) == SelectSeq(rlog[r], LAMBDA e : e.op = "post_client")

\* the loop over CLIENT_NAMES of run r is over
ClientsDone(r) ==
    \/ rpc[r] \in {"channel_post", "channel_list", "connect", "patch", "exit0"}
    \/ why[r] \in {"clients", "channel"}

\* what the log of run r says about the client of that name: it was created,
\* or a conflict was reported and the lookup that followed was answered
Answered(r, name, results) ==
    \E i \in 1..Len(rlog[r]) :
        /\ rlog[r][i].name = name
        /\ rlog[r][i].op \in {"post_client", "list_clients"}
        /\ rlog[r][i].res \in results

\* C18: once the Domain is resolved, creation is attempted exactly once for
\* every name of CLIENT_NAMES, in list order, whatever happens to the other
\* names; a Client that fails is left out of the resolved set and does not
\* stop the others; the run ends with status 1 at this step exactly when no
\* Client at all was resolved.
C18_EveryClientAttempted ==
    \A r \in Runs :
        LET posts == ClientPosts(r)
        IN  /\ Len(posts) <= Len(CLIENT_NAMES)
            /\ \A i \in 1..Len(posts) : posts[i].name = CLIENT_NAMES[i]
            /\ posts # <<>> => domain[r] # 0
            /\ ClientsDone(r) => Len(posts) = Len(CLIENT_NAMES)
            /\ \A j \in 1..Len(clients[r]) :
                 /\ \E i \in 1..Len(posts) : posts[i].name = clients[r][j].name
                 /\ \A k \in 1..Len(clients[r]) :
                      j < k => \E a, b \in 1..Len(CLIENT_NAMES) :
                                  /\ a < b
                                  /\ CLIENT_NAMES[a] = clients[r][j].name
                                  /\ CLIENT_NAMES[b] = clients[r][k].name
                 /\ \/ Answered(r, clients[r][j].name, {"created", "created_noid"})
                    \/ /\ Answered(r, clients[r][j].name, {"conflict"})
                       /\ Answered(r, clients[r][j].name, {"ok"})
            /\ \A i \in 1..Len(posts) :
                 (/\ posts[i].res \in {"failed", "created_2xx"}
                    \/ Answered(r, posts[i].name, {"failed"}))
                 => \A j \in 1..Len(clients[r]) : clients[r][j].name # posts[i].name
            /\ why[r] = "clients"
                 <=> (ClientsDone(r) /\ clients[r] = <<>>)
            /\ why[r] = "clients" => rpc[r] = "exit1" /\ ~Did(r, "post_channel")

\* C18 witness: the first client failed, a later one met a conflict whose
\* lookup found no match, three were resolved and the run went on
C18_Witness ==
    /\ rpc[1] = "exit0"
    /\ Len(clients[1]) = 3
    /\ ClientPosts(1)[1].res = "failed"
    /\ \E n \in 2..Len(CLIENT_NAMES) :
         /\ Answered(1, CLIENT_NAMES[n], {"ok"})
         /\ \A j \in 1..Len(clients[1]) : clients[1][j].name # CLIENT_NAMES[n]

\* the run's last two requests: POST /domains answered "route taken", then
\* GET /domains answered with the list
RouteConflictLookedUp(r) ==
    LET n == Len(rlog[r])
    IN  /\ n >= 2
        /\ rlog[r][n - 1] = Entry("post_domain", DOMAIN_ROUTE, "route_taken")
        /\ rlog[r][n] = Entry("list_domains", DOMAIN_ROUTE, "ok")

\* C3: after a "route taken" conflict create_domain resolves to the id of the
\* listed domain whose route is the desired route, whatever else the list
\* holds and in whatever order.
C3_ConflictResolvesByRoute ==
    \A r \in Runs :
        RouteConflictLookedUp(r)
        => \A i \in 1..Len(dReg) :
               dReg[i].route = DOMAIN_ROUTE => domain[r] = dReg[i].id

\* C10 as stated: only readiness and authentication failures end the run; an
\* unresolved Domain, Client or Channel stops only what depends on it, so the
\* channel is still attempted without clients and the configuration patch is
\* still attempted without a channel.
C10_OnlyReadinessAndAuthAbort ==
    \A r \in Runs :
        rpc[r] = "exit1"
        => \/ why[r] \in {"readiness", "auth", "domain"}
           \/ (Did(r, "post_channel") /\ Did(r, "patch"))

\* C10 amended: the run ends with status 1 on readiness-probe exhaustion, on
\* authentication failure, on an unresolved Domain, when no Client at all was
\* resolved and on an unresolved Channel, each time without attempting any
\* later step; the failure of single Clients, as long as one Client is
\* resolved, does not end the run.
C10_FatalSteps ==
    \A r \in Runs :
        /\ rpc[r] = "exit1"
             => /\ why[r] \in {"readiness", "auth", "domain", "clients", "channel"}
                /\ why[r] = "readiness" => ~Did(r, "login")
                /\ why[r] = "auth" => ~token[r] /\ ~Did(r, "list_domains")
                /\ why[r] = "domain" => domain[r] = 0 /\ ~Did(r, "post_client")
                /\ why[r] = "clients"
                     => /\ clients[r] = <<>>
                        /\ cidx[r] = Len(CLIENT_NAMES)
                        /\ ~Did(r, "post_channel")
                /\ why[r] = "channel"
                     => /\ channel[r] = 0
                        /\ clients[r] # <<>>
                        /\ ~Did(r, "connect")
                /\ ~Did(r, "patch")
        /\ rpc[r] # "exit1" => why[r] = "none"
        /\ rpc[r] \in {"channel_post", "channel_list", "connect", "patch", "exit0"}
             => token[r] /\ domain[r] # 0 /\ clients[r] # <<>>
        /\ rpc[r] \in {"connect", "patch", "exit0"} => channel[r] # 0

\* C10 witness: one client failed, another was resolved, then the channel
\* could not be resolved and the run ended
C10_Witness ==
    /\ rpc[1] = "exit1"
    /\ why[1] = "channel"
    /\ Len(clients[1]) \in 1..(Len(CLIENT_NAMES) - 1)

----------------------------------------------------------------------------
(* Properties of the round workflow *)

\* the positions of the requests of one kind in the log
Reqs(op) == {i \in 1..Len(hlog) : hlog[i].op = op}
ReqsOf(op, who) == {i \in Reqs(op) : hlog[i].who = who}
Succeeded(op) == {i \in Reqs(op) : hlog[i].res = "ok"}
Failed(op) == {i \in Reqs(op) : hlog[i].res # "ok"}
Names(seq) == {seq[i] : i \in 1..Len(seq)}

\* C7: when FetchTask fails for a participant (a status other than 200, or
\* a transport error), that participant is skipped without retry, the run
\* never ends with a fatal error, and it goes on to attempt every other
\* participant, the completion check and the model verification.
C7_FetchFailureTolerated ==
    Failed("task") # {}
    => /\ hpc \notin {"crashed", "exit1"}
       /\ \A i \in Failed("task") :
            /\ Cardinality(ReqsOf("task", hlog[i].who)) = 1
            /\ ReqsOf("update", hlog[i].who) = {}
       /\ hpc = "done"
            => /\ \A who \in Names(participants) :
                    Cardinality(ReqsOf("task", who)) = 1
               /\ Cardinality(Reqs("complete")) = 1
               /\ ReqsOf("get_model", "1") # {}

\* C8: with k_of_n = 3 and a coordinator that buffers the updates of a round
\* and completes it once k have arrived, the completion check reports
\* completed = true and num_updates = 3 when exactly 3 submissions
\* succeeded, and completed = false when only 2 did.
C8_RoundCompletion ==
    observed.seen
    => /\ Cardinality(Succeeded("update")) = 3
            => observed.completed /\ observed.num_updates = 3
       /\ Cardinality(Succeeded("update")) = 2
            => ~observed.completed /\ observed.num_updates = 2

\* C8 witness: three accepted updates and a completion check that saw them
C8_Witness ==
    /\ observed.seen
    /\ observed.completed
    /\ Cardinality(Succeeded("update")) = 3

Index(who) == CHOOSE n \in 1..Len(participants) : participants[n] = who

\* the loop of line 104 has left the participant behind
Processed(who) ==
    \/ hpc \in {"poll", "verify", "done"}
    \/ hpc \in {"fetch", "model", "submit", "crashed"} /\ hidx > Index(who)

\* C21: POST /update is issued at most once per participant, only after a
\* successful FetchTask of that participant in the same run and with the
\* round_id of that FetchTask; a failed submission is not retried, and the
\* run goes on to the next participant (after the last one, to the
\* completion check).
C21_SubmitOncePerFetchedTask ==
    /\ \A who \in Names(participants) :
         Cardinality(ReqsOf("update", who)) <= 1
    /\ \A i \in Reqs("update") :
         \E j \in Succeeded("task") :
            /\ j < i
            /\ hlog[j].who = hlog[i].who
            /\ hlog[j].rid = hlog[i].rid
    /\ \A i \in Failed("update") :
         LET n == Index(hlog[i].who)
         IN  IF i < Len(hlog)
             THEN IF n < Len(participants)
                  THEN /\ hlog[i + 1].op = "task"
                       /\ hlog[i + 1].who = participants[n + 1]
                  ELSE hlog[i + 1].op = "complete"
             ELSE IF n < Len(participants)
                  THEN hpc = "fetch" /\ hidx = n + 1
                  ELSE hpc = "poll"

\* C21 witness: the submission of proplet-1 failed, and proplet-2 was then
\* given its task and submitted
C21_Witness ==
    /\ \E i \in Failed("update") : hlog[i].who = "proplet-1"
    /\ \E i \in Succeeded("update") : hlog[i].who = "proplet-2"
    /\ ReqsOf("task", "proplet-3") # {}

\* C22: once the experiment is configured, the completion check is issued
\* exactly once, after every participant has been processed and for the
\* round_id of the run, however many fetches and submissions succeeded;
\* whatever it returns, the run goes on to the model verification and ends
\* normally.
C22_CompletionCheckedOnce ==
    Succeeded("configure") # {}
    => /\ hpc \notin {"crashed", "exit1"}
       /\ Cardinality(Reqs("complete")) <= 1
       /\ \A i \in Reqs("complete") :
            /\ hlog[i].rid = round_id
            /\ \A who \in Names(participants) :
                 \E j \in ReqsOf("task", who) : j < i
            /\ \A j \in Reqs("task") \cup Reqs("update") : j < i
       /\ hpc \in {"verify", "done"} => Cardinality(Reqs("complete")) = 1
       /\ hpc = "done" => ReqsOf("get_model", "1") # {}

\* C23: for every participant whose FetchTask succeeded, whatever the model
\* registry answers to the model fetch (another status, a transport error,
\* a 200 with any body), a local update is computed and submitted, and the
\* round is not aborted for the remaining participants.
C23_ModelFetchTolerated ==
    /\ hpc # "crashed"
    /\ \A i \in Succeeded("task") :
         Processed(hlog[i].who) => ReqsOf("update", hlog[i].who) # {}

\* C24 as stated: the local update is a function of its inputs: a POST
\* /update built from the same task and the same base model as the one
\* before carries the same model delta, sample count and loss metric.
C24_Deterministic ==
    [][ ( /\ hpc = "submit"
          /\ update_payload # NoPayload
          /\ update_payload.update.base = update.base )
        => /\ update_payload'.update = update_payload.update
           /\ update_payload'.num_samples = update_payload.num_samples
           /\ update_payload'.loss = update_payload.loss ]_vars

\* C24 amended: the model delta and the loss metric are drawn at random for
\* every update; what two updates from the same task and the same base model
\* share is the base model and the sample count of 512.
C24_OnlySampleCountFixed ==
    /\ update_payload # NoPayload
         => /\ update_payload.num_samples = num_samples
            /\ update_payload.loss \in Noise
            /\ update_payload.update.noise \in Noise
            /\ update_payload.update.base \in {"flat", "default"}
    /\ hpc = "submit"
         => /\ update.base = model
            /\ update.noise \in Noise

\* C24 witness: a second update computed from the same base model as the
\* one submitted before, with another delta
C24_Witness ==
    /\ hpc = "submit"
    /\ update_payload # NoPayload
    /\ update_payload.num_samples = num_samples
    /\ update_payload.update.base = update.base
    /\ update_payload.update.noise # update.noise

\* the request that looks for version 0 before the experiment is configured
SeedRequests == {i \in ReqsOf("get_model", "0") : \A j \in Reqs("configure") : i < j}

\* C25: the only write to the model registry is the seed of version 0, and
\* it is issued only after the orchestrator's own GET /models/0 was answered
\* with a status other than 200; version 0 is not posted when the registry
\* returned it, no other version is posted, and a failed seeding does not
\* stop the run.
C25_SeedOnlyMissingVersionZero ==
    /\ Cardinality(Reqs("post_model")) <= 1
    /\ \A i \in Reqs("post_model") :
         /\ hlog[i].who = "0"
         /\ i > 1
         /\ hlog[i - 1] = Req("get_model", "0", "none", "status")
         /\ i - 1 \in SeedRequests
    /\ \A i \in Failed("post_model") \cup {j \in SeedRequests : hlog[j].res = "error"} :
         IF i < Len(hlog)
         THEN hlog[i + 1].op = "configure"
         ELSE hpc = "configure"

\* C25 witness: the seed was posted and refused, and the run went on to
\* configure the experiment and reached its end
C25_Witness ==
    /\ Failed("post_model") # {}
    /\ Succeeded("configure") # {}
    /\ hpc = "done"

----------------------------------------------------------------------------
(* Properties of the task launcher *)

LReqs(op) == {i \in 1..Len(llog) : llog[i].op = op}
LReqsOf(op, who) == {i \in LReqs(op) : llog[i].who = who}

\* the creations answered with 201 and a task id
Created == {i \in LReqs("create") : llog[i].res \in {"201id", "201nested"}}

\* the creations and starts that failed
LaunchFailures ==
    {i \in LReqs("create") : i \notin Created}
        \cup {i \in LReqs("start") : llog[i].res # "ok"}

HealthFailed == \E i \in LReqs("health") : llog[i].res # "ok"

\* C26: in test-fl-local.py a task is started only directly after its
\* creation returned 201 with a task id, at most once per participant and
\* in the order of the participant list; a failed creation or start does
\* not keep the remaining participants from being processed; and the run
\* ends with status 1 exactly when the manager's health check failed, the
\* WASM file is missing, or no creation returned a task.
C26_StartOnlyCreatedTasks ==
    /\ \A i \in LReqs("start") :
         /\ i - 1 \in Created
         /\ llog[i - 1].who = llog[i].who
         /\ llog[i - 1].id = llog[i].id
         /\ llog[i].id # 0
    /\ \A who \in Names(participants) :
         /\ Cardinality(LReqsOf("start", who)) <= 1
         /\ Cardinality(LReqsOf("create", who)) <= 1
    /\ \A i, j \in LReqs("create") \cup LReqs("start") :
         i < j => Index(llog[i].who) <= Index(llog[j].who)
    /\ \A i \in LaunchFailures :
         LET n == Index(llog[i].who)
         IN  n < Len(participants)
             => IF i < Len(llog)
                THEN /\ llog[i + 1].op = "create"
                     /\ llog[i + 1].who = participants[n + 1]
                ELSE lpc = "create" /\ lidx = n + 1
    /\ HealthFailed => lpc = "exit1"
    /\ wasm_file = "missing" /\ lpc \notin {"health", "wasm"} => lpc = "exit1"
    /\ lpc = "exit1"
         => \/ HealthFailed
            \/ wasm_file = "missing"
            \/ /\ Created = {}
               /\ \A who \in Names(participants) : LReqsOf("create", who) # {}
    /\ lpc = "done"
         => /\ Created # {}
            /\ ~HealthFailed
            /\ wasm_file = "present"
            /\ \A who \in Names(participants) : LReqsOf("create", who) # {}
    /\ Created = {} /\ LReqsOf("create", participants[Len(participants)]) # {}
         => lpc = "exit1"

\* C26 witness: the creation failed for proplet-1, the start failed for
\* proplet-2, proplet-3 was created and started, and the run ended normally
C26_Witness ==
    /\ lpc = "done"
    /\ \E i \in LReqsOf("create", "proplet-1") : i \notin Created
    /\ LReqsOf("start", "proplet-1") = {}
    /\ \E i \in LReqsOf("start", "proplet-2") : llog[i].res # "ok"
    /\ \E i \in LReqsOf("start", "proplet-3") : llog[i].res = "ok" /\ llog[i].id = 2

----------------------------------------------------------------------------
(* Properties of the configuration patch *)

InLog(op) == \E i \in 1..Len(fsLog) : fsLog[i] = op

\* the manager's resolved credentials among the arguments
HasManagerCredentials ==
    \E i \in 1..Len(pclients) :
        /\ pclients[i].name = "manager"
        /\ pclients[i].id # NoId
        /\ pclients[i].has_secret
ManagerClient ==
    pclients[CHOOSE i \in 1..Len(pclients) : pclients[i].name = "manager"]

\* the round-trip document: a domain-id field, a client-id field and a
\* client-key field, each in compose syntax with a hexadecimal placeholder
IsRoundTripDoc(doc) ==
    /\ Len(doc) = 3
    /\ doc[1].key = "MANAGER_DOMAIN_ID"
    /\ doc[2].key = "MANAGER_CLIENT_ID"
    /\ doc[3].key = "MANAGER_CLIENT_KEY"
    /\ \A i \in 1..3 : doc[i].braces = 1 /\ doc[i].val = <<"0", "0">>

\* that document with exactly the three defaults replaced
RoundTripExpected(doc) ==
    [i \in DOMAIN doc |->
        [doc[i] EXCEPT !.val =
            CASE i = 1 -> pdomain
              [] i = 2 -> ManagerClient.id
              [] i = 3 -> ManagerClient.secret]]

\* C4: applied to a document with a domain-id, a client-id and a client-key
\* field in the variable-with-default syntax, given resolved values for all
\* three, the patch yields the document with exactly those three defaults
\* replaced, and the backup holds the original.
C4_RoundTrip ==
    (/\ ppc = "returned"
     /\ pass = 1
     /\ HasManagerCredentials
     /\ IsRoundTripDoc(original_content))
    => /\ file = File(RoundTripExpected(original_content))
       /\ backup = File(original_content)

\* C5: the file is written only if a field changed; an overwrite is preceded
\* by the move of the original to the backup, which replaces the backup of a
\* prior run; at every step the content the file had before the call is held
\* by the file or by the backup.
C5_BackupBeforeOverwrite ==
    /\ ppc \in {"unlink", "rename", "write"}
         => /\ content # original_content
            /\ file = File(original_content) \/ backup = File(original_content)
    /\ ppc = "write" => backup = File(original_content) /\ file = Absent
    /\ (ppc = "returned" /\ presult = "true")
         => /\ content # original_content
            /\ file = File(content)
            /\ backup = File(original_content)
            /\ fsLog \in { <<"rename", "write">>, <<"unlink", "rename", "write">> }
            /\ (backup0 # Absent <=> InLog("unlink"))
    /\ (ppc = "returned" /\ presult = "false")
         => /\ fsLog = <<>>
            /\ backup = backup0
            /\ file = Absent \/ (file = File(original_content)
                                 /\ content = original_content)

\* C5 witness: an overwrite that replaced the backup of an earlier run
C5_Witness ==
    /\ ppc = "returned"
    /\ presult = "true"
    /\ backup0 = OldBackup
    /\ backup = File(original_content)
    /\ file # backup

\* the case of C6: the second application, made with the same inputs to the
\* document the first application wrote
SecondPassDone ==
    /\ pass = 2
    /\ ppc = "returned"
    /\ Len(returned) = 2
    /\ returned[1] = "true"

\* C6 as stated: a second application that changes no field still creates a
\* new backup.
C6_SecondPassBacksUp ==
    (SecondPassDone /\ content = original_content) => InLog("rename")

\* C6 amended: the second application changes no field, returns False and
\* performs no file operation, so it creates no backup; the backup of the
\* first application stays in place.
C6_SecondPassNoBackup ==
    SecondPassDone
    => /\ content = original_content
       /\ returned[2] = "false"
       /\ fsLog = <<>>
       /\ backup = backup0
       /\ backup.exists

\* C6 witness: a second pass after a first pass that rewrote the file
C6_Witness == SecondPassDone /\ backup.exists /\ file.exists /\ file # backup

\* C19: applied twice with the same resolved inputs, the patch leaves the
\* file after the second pass as it was after the first: the second pass
\* changes no field and does not rewrite the file.
C19_PatchIdempotent ==
    /\ pass = 2 => ppc \in {"call", "returned"}
    /\ (pass = 2 /\ ppc = "returned")
         => /\ Len(returned) = 2
            /\ returned[2] = "false"
            /\ fsLog = <<>>
            /\ file.exists
                 => /\ file = File(original_content)
                    /\ content = original_content
                    /\ UpdateContent(file.text, pclients, pdomain, pchannel) = file.text

\* C19 witness: the first pass replaced the fields of the three proplets one
\* over the other, the second pass has returned
C19_Witness ==
    /\ pass = 2
    /\ ppc = "returned"
    /\ returned = <<"true", "false">>
    /\ Len(pclients) = 5
    /\ \E i \in 1..Len(file.text) :
         /\ file.text[i].key = "PROPLET_CLIENT_ID"
         /\ file.text[i].val = <<"a", "4">>

\* the resolved client whose section of the document is s
SectionClient(s) ==
    pclients[CHOOSE j \in 1..Len(pclients) :
                 pclients[j].name = (IF s = "proplet" THEN "proplet-1" ELSE s)]

\* the arguments hold credentials for the manager and the three proplets
HasAllCredentials ==
    \A n \in MappedNames :
        \E j \in 1..Len(pclients) :
            /\ pclients[j].name = n
            /\ pclients[j].id # NoId
            /\ pclients[j].has_secret

\* C20: after the patch with resolved credentials for manager, proplet-1,
\* proplet-2 and proplet-3, every client-id and client-key field the patch
\* replaced holds the values of the participant of its section: manager in
\* the manager section, proplet-1 in section proplet, proplet-2 in section
\* proplet-2, proplet-3 in section proplet-3.
C20_OwnCredentials ==
    (ppc = "returned" /\ pass = 1 /\ presult = "true" /\ HasAllCredentials)
    => \A i \in 1..Len(file.text) :
         LET f == file.text[i]
             was == original_content[i]
         IN  /\ (f.key \in {"MANAGER_CLIENT_ID", "PROPLET_CLIENT_ID"}
                 /\ Matches(id_pattern(f.key), was))
                  => f.val = SectionClient(f.section).id
             /\ (f.key \in {"MANAGER_CLIENT_KEY", "PROPLET_CLIENT_KEY"}
                 /\ Matches(key_pattern(f.key), was))
                  => f.val = SectionClient(f.section).secret

====
